---- MODULE Spec2Model ----
(***************************************************************************)
(* Jerk-limited trajectory generation: AccelCurve (one bounded-jerk        *)
(* velocity change) and AccelDesigner (acceleration curve, cruise,         *)
(* deceleration curve under a distance constraint).                        *)
(*                                                                         *)
(* Numbers.  The code computes in float.  The model computes in fixed      *)
(* point: every quantity is an integer count of 1/S of a model unit, and   *)
(* every product, quotient and square root is rounded to that grid.        *)
(* Model units: time in ms, length in u = j_max/1000 nm (so that the       *)
(* maximum jerk is exactly 1 u/ms^3), velocity u/ms, acceleration u/ms^2.  *)
(* Requests are written in the code's units (mm/s^2, mm/s, micrometres,    *)
(* ms) and converted.  Division by a literal (/2, /3, /6) is applied to    *)
(* the finished product, so that the grid does not coarsen the literal.    *)
(* The only float values that are not finite numbers arise in              *)
(* AccelDesigner::reset from the division by v_max; they are carried as    *)
(* extended values (NaN, +inf, -inf) with IEEE comparison rules.           *)
(***************************************************************************)
EXTENDS Integers, Sequences, FiniteSets, TLC

(***************************************************************************)
(* Bounds of the model                                                     *)
(***************************************************************************)
SqrtS == 10            \* square root of the fixed-point resolution
NAcc == 2              \* a_max ranges over 3600 mm/s^2 * (1..NAcc)
NVel == 4              \* velocities range over 10 mm/s * (0..NVel)
MaxDistExp == 6        \* distances 0 and 50 um * 2^(0..MaxDistExp)
NSamples == 8          \* sample instants between t0 and t3

S == SqrtS * SqrtS     \* grid points per model unit

(***************************************************************************)
(* Program constants                                                       *)
(***************************************************************************)
j_max == 500000        \* [mm/s^3]

UnitNm == j_max \div 1000        \* the length unit u in nm: j_max = 1 u/ms^3
JU == S                          \* j_max in model units, on the grid

(***************************************************************************)
(* Fixed-point arithmetic                                                  *)
(***************************************************************************)
Abs(a) == IF a < 0 THEN -a ELSE a
Sgn(a) == IF a < 0 THEN -1 ELSE IF a > 0 THEN 1 ELSE 0
Max2(a, b) == IF a < b THEN b ELSE a
Min2(a, b) == IF a < b THEN a ELSE b

\* |a| * |b| / S, rounded to nearest, without forming a * b
MulAbs(a, b) ==
    LET hi == Max2(a, b)
        lo == Min2(a, b)
    IN  hi * (lo \div S) + ((hi * (lo % S) + (S \div 2)) \div S)

Mul(a, b) == Sgn(a) * Sgn(b) * MulAbs(Abs(a), Abs(b))

\* |a| * S / |b|, rounded to nearest, without forming a * S;  b # 0
DivAbs(a, b) == (a \div b) * S + (((a % b) * S + (b \div 2)) \div b)

Div(a, b) == Sgn(a) * Sgn(b) * DivAbs(Abs(a), Abs(b))

\* division by a literal
DivInt(a, n) == Sgn(a) * ((Abs(a) + (n \div 2)) \div n)

RECURSIVE SqrtBis(_, _, _)
\* largest r in lo..hi-1 with r * r <= n, given lo * lo <= n < hi * hi
SqrtBis(n, lo, hi) ==
    IF hi - lo <= 1 THEN lo
    ELSE LET mid == (lo + hi) \div 2
         IN  IF mid * mid <= n THEN SqrtBis(n, mid, hi) ELSE SqrtBis(n, lo, mid)

ISqrt(n) == SqrtBis(n, 0, 46341)

\* std::sqrt on the grid: largest y with y * y <= x * S.  std::sqrt of a
\* negative number is NaN; no request of the model reaches that case (the
\* CHOOSE below has no value there and the model checker stops on it).
Sqrt(x) ==
    IF x < 0 THEN CHOOSE y \in {} : TRUE
    ELSE LET r == ISqrt(x)
             rest == S * (x - r * r)
             k == CHOOSE i \in 0..(SqrtS - 1) :
                     /\ 2 * SqrtS * r * i + i * i <= rest
                     /\ \/ i = SqrtS - 1
                        \/ 2 * SqrtS * r * (i + 1) + (i + 1) * (i + 1) > rest
         IN  SqrtS * r + k

(***************************************************************************)
(* AccelCurve                                                              *)
(***************************************************************************)
\* AccelCurve(): every member zero
AccelCurveNew ==
    [jm |-> 0, am |-> 0, t0 |-> 0, t1 |-> 0, t2 |-> 0, t3 |-> 0,
     v0 |-> 0, v1 |-> 0, v2 |-> 0, v3 |-> 0,
     x0 |-> 0, x1 |-> 0, x2 |-> 0, x3 |-> 0, tc |-> 0, tm |-> 0]

calcTimeCurve(am) == Div(Abs(am), JU)

\* the phase of the curve that the if-chain of j, a, v, x selects for t
\*   0: t <= t0   1: t <= t1   2: t <= t2   3: t <= t3   4: otherwise
Phase(c, t) ==
    IF t <= c.t0 THEN 0
    ELSE IF t <= c.t1 THEN 1
    ELSE IF t <= c.t2 THEN 2
    ELSE IF t <= c.t3 THEN 3
    ELSE 4

\* the return expression of j(t) in phase p
JPiece(c, p, t) ==
    CASE p = 0 -> 0
      [] p = 1 -> JU
      [] p = 2 -> 0
      [] p = 3 -> -JU
      [] p = 4 -> 0

\* the return expression of a(t) in phase p
APiece(c, p, t) ==
    CASE p = 0 -> 0
      [] p = 1 -> Mul(c.jm, t - c.t0)
      [] p = 2 -> c.am
      [] p = 3 -> Mul(-c.jm, t - c.t3)
      [] p = 4 -> 0

\* v(t) with the last phase written like the first one (sign slip)
VPieceSignSlip(c, p, t) ==
    CASE p = 0 -> c.v0
      [] p = 1 -> c.v0 + DivInt(Mul(Mul(c.jm, t - c.t0), t - c.t0), 2)
      [] p = 2 -> c.v1 + Mul(c.am, t - c.t1)
      [] p = 3 -> c.v3 + DivInt(Mul(Mul(c.jm, t - c.t3), t - c.t3), 2)
      [] p = 4 -> c.v3

\* the return expression of v(t) in phase p
VPiece(c, p, t) ==
    CASE p = 0 -> c.v0
      [] p = 1 -> c.v0 + DivInt(Mul(Mul(c.jm, t - c.t0), t - c.t0), 2)
      [] p = 2 -> c.v1 + Mul(c.am, t - c.t1)
      [] p = 3 -> c.v3 - DivInt(Mul(Mul(c.jm, t - c.t3), t - c.t3), 2)
      [] p = 4 -> c.v3

\* x(t) with the two rays clamped to the boundary position
XPieceClamped(c, p, t) ==
    CASE p = 0 -> c.x0
      [] p = 1 -> c.x0 + Mul(c.v0, t - c.t0)
                    + DivInt(Mul(Mul(Mul(c.jm, t - c.t0), t - c.t0), t - c.t0), 6)
      [] p = 2 -> c.x1 + Mul(c.v1, t - c.t1)
                    + DivInt(Mul(Mul(c.am, t - c.t1), t - c.t1), 2)
      [] p = 3 -> c.x3 + Mul(c.v3, t - c.t3)
                    + DivInt(Mul(Mul(Mul(c.jm, t - c.t3), t - c.t3), t - c.t3), 6)
      [] p = 4 -> c.x3

\* the return expression of x(t) in phase p
XPiece(c, p, t) ==
    CASE p = 0 -> c.x0 + Mul(c.v0, t - c.t0)
      [] p = 1 -> c.x0 + Mul(c.v0, t - c.t0)
                    + DivInt(Mul(Mul(Mul(c.jm, t - c.t0), t - c.t0), t - c.t0), 6)
      [] p = 2 -> c.x1 + Mul(c.v1, t - c.t1)
                    + DivInt(Mul(Mul(c.am, t - c.t1), t - c.t1), 2)
      [] p = 3 -> c.x3 + Mul(c.v3, t - c.t3)
                    + DivInt(Mul(Mul(Mul(c.jm, t - c.t3), t - c.t3), t - c.t3), 6)
      [] p = 4 -> c.x3 + Mul(c.v3, t - c.t3)

CurveJ(c, t) == JPiece(c, Phase(c, t), t)
CurveA(c, t) == APiece(c, Phase(c, t), t)
CurveV(c, t) == VPiece(c, Phase(c, t), t)
CurveX(c, t) == XPiece(c, Phase(c, t), t)

\* AccelCurve::reset, assignment by assignment, on the object c.
\* tc, am, jm, v0, v3, t0, x0
ResetLimits(c, a_max, v_start, v_end) ==
    [c EXCEPT !.tc = calcTimeCurve(a_max),
              !.am = IF v_end - v_start > 0 THEN a_max ELSE -a_max,
              !.jm = IF v_end - v_start > 0 THEN JU ELSE -JU,
              !.v0 = v_start, !.v3 = v_end, !.t0 = 0, !.x0 = 0]

\* tm = (v3 - v0) / am - tc
ResetTm(c) == [c EXCEPT !.tm = Div(c.v3 - c.v0, c.am) - c.tc]

\* t1 without the curve-curve branch: t1 = t0 + tc whatever tm is
ResetT1NoTriangle(c) == [c EXCEPT !.t1 = c.t0 + c.tc]

\* t1 = t0 + tc with a plateau, t0 + sqrt(tc / am * (v3 - v0)) without
ResetT1(c) ==
    [c EXCEPT !.t1 = IF c.tm > 0 THEN c.t0 + c.tc
                     ELSE c.t0 + Sqrt(Mul(Div(c.tc, c.am), c.v3 - c.v0))]

ResetT2(c) == [c EXCEPT !.t2 = IF c.tm > 0 THEN c.t1 + c.tm ELSE c.t1]

ResetT3(c) == [c EXCEPT !.t3 = IF c.tm > 0 THEN c.t2 + c.tc ELSE c.t2 + (c.t1 - c.t0)]

\* v1 = v(t1); v2 = v(t2); x1 = x(t1); x2 = x(t2)
ResetV1(c) == [c EXCEPT !.v1 = CurveV(c, c.t1)]
ResetV2(c) == [c EXCEPT !.v2 = CurveV(c, c.t2)]
ResetX1(c) == [c EXCEPT !.x1 = CurveX(c, c.t1)]
ResetX2(c) == [c EXCEPT !.x2 = CurveX(c, c.t2)]

\* x3 = x0 + (v0 + v3) / 2 * (t3 - t0)
ResetX3(c) == [c EXCEPT !.x3 = c.x0 + DivInt(Mul(c.v0 + c.v3, c.t3 - c.t0), 2)]

\* AccelCurve::reset on the object old
AccelCurveReset(old, a_max, v_start, v_end) ==
    ResetX3(ResetX2(ResetX1(ResetV2(ResetV1(ResetT3(ResetT2(ResetT1(ResetTm(
        ResetLimits(old, a_max, v_start, v_end))))))))))

\* AccelCurve(a_max, v_start, v_end): reset on a fresh object
AccelCurveOf(a_max, v_start, v_end) ==
    AccelCurveReset(AccelCurveNew, a_max, v_start, v_end)

calcMinDistance(a_max, v_start, v_end) == AccelCurveOf(a_max, v_start, v_end).x3

(***************************************************************************)
(* The root solvers                                                        *)
(***************************************************************************)
\* sign of p * p * q - b * S * S, exactly, for 0 <= p <= 46340,
\* 0 <= q <= 32767, 0 <= b: both sides as two digits in base 65536
CmpCubic(p, q, b) ==
    LET pp == p * p
        lw == (pp % 65536) * q
        lh == (pp \div 65536) * q + (lw \div 65536)
        ll == lw % 65536
        rw == (b % 65536) * (S * S)
        rh == (b \div 65536) * (S * S) + (rw \div 65536)
        rl == rw % 65536
    IN  IF lh # rh THEN Sgn(lh - rh) ELSE Sgn(ll - rl)

\* the three shapes of the cubic in the offset z from a root bracket:
\*   "up":   (k + z)^2 * z      ve = a + z,  k = 2a
\*   "down": (k - z)^2 * z      ve = a - z,  k = 2a, increasing on 0..k/3
\*   "neg":  z^2 * (k + z)      ve = -a - z, k = 2a
CubicLe(shape, k, z, b) ==
    CASE shape = "up"   -> CmpCubic(k + z, z, b) <= 0
      [] shape = "down" -> CmpCubic(k - z, z, b) <= 0
      [] shape = "neg"  -> CmpCubic(z, k + z, b) <= 0

RECURSIVE RootBis(_, _, _, _, _)
\* largest z in lo..hi-1 with CubicLe(shape, k, z, b), given that lo
\* satisfies it and that the cubic increases on lo..hi
RootBis(shape, k, b, lo, hi) ==
    IF hi - lo <= 1 THEN lo
    ELSE LET mid == (lo + hi) \div 2
         IN  IF CubicLe(shape, k, mid, b)
             THEN RootBis(shape, k, b, mid, hi) ELSE RootBis(shape, k, b, lo, mid)

\* the root offset on an unbounded branch; the bracket 0..hi must hold it
\* (the CHOOSE has no value otherwise and the model checker stops on it)
RootIn(shape, k, b, hi) ==
    LET z == RootBis(shape, k, b, 0, hi)
    IN  IF z + 1 < hi THEN z ELSE CHOOSE y \in {} : TRUE

\* The curve-curve branch of calcVelocityEnd: the root ve of
\*     (ve + a)^2 * (ve - a) = b
\* that Cardano's formula yields.  With c0 >= 0 the cubic has one real root
\* and the real cube root yields it; with c0 < 0 it has three, and twice the
\* real part of the principal complex cube root (modulus 2a, argument in
\* [0, pi/3]) yields the largest, which lies in [a/3, a].
CardanoRoot(a, b) ==
    LET a3 == Mul(Mul(a, a), a)
        c0nonneg == b >= 0 \/ 27 * DivInt(-b, 32) >= a3
    IN  IF c0nonneg
        THEN IF b >= 0
             THEN a + RootIn("up", 2 * a, b, Min2(32767, 46340 - 2 * a))
             ELSE -a - RootIn("neg", 2 * a, -b, 32767 - 2 * a)
        ELSE a - RootBis("down", 2 * a, -b, 0, DivInt(2 * a, 3) + 1)

\* whether calcVelocityEnd takes the curve-line-curve branch
VelocityEndHasPlateau(a_max, vs, vt, d) ==
    LET tc == calcTimeCurve(a_max)
        am == IF vt - vs > 0 THEN a_max ELSE -a_max
    IN  d > Mul(2 * vs + Mul(Mul(Div(am, tc), tc), tc), tc)

calcVelocityEnd(a_max, vs, vt, d) ==
    LET tc == calcTimeCurve(a_max)
        am == IF vt - vs > 0 THEN a_max ELSE -a_max
    IN  IF VelocityEndHasPlateau(a_max, vs, vt, d)
        THEN LET amtc == Mul(am, tc)
                 D == Mul(amtc, amtc)
                        - 4 * (Mul(amtc, vs) - Mul(vs, vs) - 2 * Mul(am, d))
             IN  DivInt(-amtc + Sqrt(D), 2)
        ELSE \* b = am * d * d / tc, with am / tc formed first to stay in range
             CardanoRoot(vs, Mul(Div(am, tc), Mul(d, d)))

\* the discriminant of calcVelocityMax
VelocityMaxD(am, vs, ve, d) ==
    LET tc == calcTimeCurve(am)
        amtc == Mul(am, tc)
    IN  Mul(amtc, amtc) - 2 * Mul(vs + ve, amtc) + 4 * Mul(am, d)
          + 2 * (Mul(vs, vs) + Mul(ve, ve))

calcVelocityMax(am, vs, ve, d) ==
    LET amtc == Mul(am, calcTimeCurve(am))
        D == VelocityMaxD(am, vs, ve, d)
    IN  IF D < 0 THEN vs ELSE DivInt(-amtc + Sqrt(D), 2)

(***************************************************************************)
(* Float values that need not be finite                                    *)
(***************************************************************************)
Fin(n) == [k |-> "fin", n |-> n]
NaN == [k |-> "nan", n |-> 0]
PInf == [k |-> "pinf", n |-> 0]
NInf == [k |-> "ninf", n |-> 0]

IsFin(e) == e.k = "fin"

\* a / b for finite a and b, b possibly zero
FDiv(a, b) ==
    IF b # 0 THEN Fin(Div(a, b))
    ELSE IF a = 0 THEN NaN ELSE IF a > 0 THEN PInf ELSE NInf

ENeg(e) ==
    CASE e.k = "fin" -> Fin(-e.n)
      [] e.k = "nan" -> NaN
      [] e.k = "pinf" -> NInf
      [] e.k = "ninf" -> PInf

EAdd(e, f) ==
    CASE e.k = "nan" \/ f.k = "nan" -> NaN
      [] e.k = "fin" /\ f.k = "fin" -> Fin(e.n + f.n)
      [] e.k = "fin" /\ f.k # "fin" -> f
      [] e.k # "fin" /\ f.k = "fin" -> e
      [] OTHER -> IF e.k = f.k THEN e ELSE NaN

ESub(e, f) == EAdd(e, ENeg(f))

\* v * e for a finite v
EScale(v, e) ==
    CASE e.k = "nan" -> NaN
      [] e.k = "fin" -> Fin(Mul(v, e.n))
      [] OTHER -> IF v = 0 THEN NaN
                  ELSE IF (v > 0) = (e.k = "pinf") THEN PInf ELSE NInf

\* e < f and e <= f; a comparison with NaN is false
ELt(e, f) ==
    CASE e.k = "nan" \/ f.k = "nan" -> FALSE
      [] e.k = "fin" /\ f.k = "fin" -> e.n < f.n
      [] OTHER -> e.k # f.k /\ (e.k = "ninf" \/ f.k = "pinf")

ELe(e, f) ==
    CASE e.k = "nan" \/ f.k = "nan" -> FALSE
      [] e.k = "fin" /\ f.k = "fin" -> e.n <= f.n
      [] OTHER -> e.k = f.k \/ e.k = "ninf" \/ f.k = "pinf"

\* the evaluators of AccelCurve at a time that need not be finite
EPhase(c, e) ==
    CASE e.k = "fin" -> Phase(c, e.n)
      [] e.k = "ninf" -> 0
      [] OTHER -> 4

CurveJE(c, e) == Fin(IF IsFin(e) THEN CurveJ(c, e.n) ELSE 0)
CurveAE(c, e) == Fin(IF IsFin(e) THEN CurveA(c, e.n) ELSE 0)
CurveVE(c, e) ==
    Fin(IF IsFin(e) THEN CurveV(c, e.n) ELSE IF EPhase(c, e) = 0 THEN c.v0 ELSE c.v3)
CurveXE(c, e) ==
    IF IsFin(e) THEN Fin(CurveX(c, e.n))
    ELSE IF EPhase(c, e) = 0
         THEN EAdd(Fin(c.x0), EScale(c.v0, ESub(e, Fin(c.t0))))
         ELSE EAdd(Fin(c.x3), EScale(c.v3, ESub(e, Fin(c.t3))))

(***************************************************************************)
(* Units: the code's units to grid values of the model                     *)
(***************************************************************************)
FromMmS2(a) == (a * S) \div UnitNm               \* mm/s^2 = nm/ms^2
FromMmS(v) == (v * 1000 * S) \div UnitNm         \* mm/s = 1000 nm/ms
FromUm(d) == ((d * 1000) \div UnitNm) * S        \* micrometre = 1000 nm
FromMs(t) == t * S

DistTolUm == 100       \* 0.1f [mm], the distance tolerance of reset
TimeTolMs == 1         \* 0.001f [s], the time tolerance e of reset

DistTol == FromUm(DistTolUm)
TimeTol == FromMs(TimeTolMs)

(***************************************************************************)
(* AccelDesigner                                                           *)
(***************************************************************************)
\* AccelDesigner(): t0 = t1 = t2 = t3 = x0 = x3 = 0, ac and dc zeroed
AccelDesignerNew ==
    [t0 |-> 0, t1 |-> 0, t2 |-> Fin(0), t3 |-> Fin(0), x0 |-> 0, x3 |-> 0,
     ac |-> AccelCurveNew, dc |-> AccelCurveNew]

\* the lines reset writes to std::cerr
WarnDistance == "Warning: distance < 0"
ErrVelocityMax == "Error: AccelCurve::calcVelocityMax()"
ErrDistance == "Error: distance constraint"
ErrTimePoint == "Error: Time Point"

\* the time ordering test of reset
TimeOrdered(t0, t1, t2, t3) ==
    /\ t0 <= t1 + TimeTol
    /\ ELe(Fin(t1), EAdd(t2, Fin(TimeTol)))
    /\ ELe(t2, EAdd(t3, Fin(TimeTol)))

\* AccelDesigner::reset, step by step, on a frame f that holds the object's
\* members (t0..t3, x0, x3, ac, dc), the arguments and locals of the call,
\* and what it has written to std::cerr so far (err); short, over and vm
\* record the branches taken and the value calcVelocityMax returned.
\* entry: v_max = max(v_start, v_sat, v_target), v_end = v_target
ResetEntry(old, a_max, v_start, v_sat, v_target, distance, x_start, t_start) ==
    [t0 |-> old.t0, t1 |-> old.t1, t2 |-> old.t2, t3 |-> old.t3,
     x0 |-> old.x0, x3 |-> old.x3, ac |-> old.ac, dc |-> old.dc,
     a_max |-> a_max, v_start |-> v_start, v_sat |-> v_sat, v_target |-> v_target,
     distance |-> distance, x_start |-> x_start, t_start |-> t_start,
     v_max |-> Max2(Max2(v_start, v_sat), v_target), v_end |-> v_target,
     short |-> FALSE, over |-> FALSE, vm |-> 0, err |-> {}]

\* if (distance <= 0)
ResetClamp(f) ==
    IF f.distance <= 0
    THEN [f EXCEPT !.err = @ \cup {WarnDistance},
                   !.v_end = f.v_start, !.v_max = f.v_start, !.distance = 0]
    ELSE f

\* v_max = std::max(v_start, v_end)
ResetPeakOfEnd(f) == [f EXCEPT !.v_max = Max2(f.v_start, f.v_end)]

\* if (distance < calcMinDistance(a_max, v_start, v_end))
ResetShort(f) ==
    IF f.distance < calcMinDistance(f.a_max, f.v_start, f.v_end)
    THEN ResetPeakOfEnd(
            [f EXCEPT !.short = TRUE,
                      !.v_end = calcVelocityEnd(f.a_max, f.v_start, f.v_target, f.distance)])
    ELSE f

\* ac.reset(a_max, v_start, v_max); dc.reset(a_max, v_max, v_end)
ResetCurves(f) ==
    [f EXCEPT !.ac = AccelCurveReset(f.ac, f.a_max, f.v_start, f.v_max),
              !.dc = AccelCurveReset(f.dc, f.a_max, f.v_max, f.v_end)]

\* v_max = min(v_max, v_sat); v_max = max(v_max, v_start, v_end)
ResetPeakClamp(f) ==
    [f EXCEPT !.v_max = Max2(Max2(Min2(f.vm, f.v_sat), f.v_start), f.v_end)]

\* if (distance < ac.x_end() + dc.x_end())
ResetOver(f) ==
    IF f.distance < f.ac.x3 + f.dc.x3
    THEN ResetCurves(ResetPeakClamp(
            [f EXCEPT !.over = TRUE,
                      !.vm = calcVelocityMax(f.a_max, f.v_start, f.v_end, f.distance),
                      !.err = @ \cup (IF VelocityMaxD(f.a_max, f.v_start, f.v_end,
                                                      f.distance) < 0
                                      THEN {ErrVelocityMax} ELSE {})]))
    ELSE f

\* if (ac.x_end() + dc.x_end() > distance + 0.1f)
ResetCheckDistance(f) ==
    IF f.ac.x3 + f.dc.x3 > f.distance + DistTol
    THEN [f EXCEPT !.err = @ \cup {ErrDistance}] ELSE f

\* x0, x3, t0, t1, t2, t3
ResetPoints(f) ==
    [f EXCEPT !.x0 = f.x_start,
              !.x3 = f.x_start + f.distance,
              !.t0 = f.t_start,
              !.t1 = f.t_start + f.ac.t3,
              !.t2 = EAdd(Fin(f.t_start + f.ac.t3),
                          FDiv(f.distance - f.ac.x3 - f.dc.x3, f.v_max)),
              !.t3 = EAdd(EAdd(Fin(f.t_start + f.ac.t3),
                               FDiv(f.distance - f.ac.x3 - f.dc.x3, f.v_max)),
                          Fin(f.dc.t3))]

\* if (!(t0 <= t1 + e && t1 <= t2 + e && t2 <= t3 + e))
ResetCheckTime(f) ==
    IF ~TimeOrdered(f.t0, f.t1, f.t2, f.t3)
    THEN [f EXCEPT !.err = @ \cup {ErrTimePoint}] ELSE f

\* what the call leaves: the object (ad), its locals at the end (plan) and
\* what it wrote to std::cerr (err)
ResetResult(f) ==
    [ad |-> [t0 |-> f.t0, t1 |-> f.t1, t2 |-> f.t2, t3 |-> f.t3,
             x0 |-> f.x0, x3 |-> f.x3, ac |-> f.ac, dc |-> f.dc],
     plan |-> [v_max |-> f.v_max, v_end |-> f.v_end, distance |-> f.distance,
               short |-> f.short, over |-> f.over, vm |-> f.vm],
     err |-> f.err]

\* AccelDesigner::reset on the object old
AccelDesignerReset(old, a_max, v_start, v_sat, v_target, distance, x_start, t_start) ==
    ResetResult(ResetCheckTime(ResetPoints(ResetCheckDistance(ResetOver(ResetCurves(
        ResetShort(ResetClamp(
            ResetEntry(old, a_max, v_start, v_sat, v_target, distance,
                       x_start, t_start)))))))))

\* AccelDesigner::j, a, v, x at a time e that need not be finite
DesignerJ(d, e) ==
    IF ELt(e, d.t2) THEN CurveJE(d.ac, ESub(e, Fin(d.t0)))
    ELSE CurveJE(d.dc, ESub(e, d.t2))
DesignerA(d, e) ==
    IF ELt(e, d.t2) THEN CurveAE(d.ac, ESub(e, Fin(d.t0)))
    ELSE CurveAE(d.dc, ESub(e, d.t2))
DesignerV(d, e) ==
    IF ELt(e, d.t2) THEN CurveVE(d.ac, ESub(e, Fin(d.t0)))
    ELSE CurveVE(d.dc, ESub(e, d.t2))
DesignerX(d, e) ==
    IF ELt(e, d.t2) THEN EAdd(Fin(d.x0), CurveXE(d.ac, ESub(e, Fin(d.t0))))
    ELSE EAdd(Fin(d.x3 - d.dc.x3), CurveXE(d.dc, ESub(e, d.t2)))

\* t_end(), v_end(), x_end()
DesignerTEnd(d) == d.t3
DesignerVEnd(d) == d.dc.v3
DesignerXEnd(d) == d.x3

(***************************************************************************)
(* The requests                                                            *)
(***************************************************************************)
RECURSIVE Pow2(_)
Pow2(n) == IF n = 0 THEN 1 ELSE 2 * Pow2(n - 1)

Accs == {FromMmS2(3600 * i) : i \in 1..NAcc}
Vels == {FromMmS(10 * i) : i \in 0..NVel}
Dists == {0} \cup {FromUm(50 * Pow2(i)) : i \in 0..MaxDistExp}
Starts == {<<0, 0>>, <<FromUm(5000), FromMs(100)>>}

Request(a, vs, va, vt, d, st) ==
    [a_max |-> a, v_start |-> vs, v_sat |-> va, v_target |-> vt,
     distance |-> d, x_start |-> st[1], t_start |-> st[2]]

GridRequests ==
    {Request(a, vs, va, vt, d, st) :
        a \in Accs, vs \in Vels, va \in Vels, vt \in Vels, d \in Dists, st \in Starts}

\* test(240000, 3600, 720, 720, 0, 90, 0, 0), without the jerk argument
HarnessRequest ==
    Request(FromMmS2(3600), FromMmS(720), FromMmS(720), 0, FromUm(90000), <<0, 0>>)

Requests == GridRequests \cup {HarnessRequest}

(***************************************************************************)
(* The state machine                                                       *)
(***************************************************************************)
VARIABLES req, ad, plan, err, adState, curve, curveState

vars == <<req, ad, plan, err, adState, curve, curveState>>

NoPlan == [v_max |-> 0, v_end |-> 0, distance |-> 0,
           short |-> FALSE, over |-> FALSE, vm |-> 0]

Init ==
    /\ req \in Requests
    /\ ad = AccelDesignerNew
    /\ plan = NoPlan
    /\ err = {}
    /\ adState = "UNINITIALIZED"
    /\ curve = AccelCurveNew
    /\ curveState = "UNINITIALIZED"

\* ad.reset(a_max, v_start, v_sat, v_target, distance, x_start, t_start)
DesignerReset ==
    LET r == AccelDesignerReset(ad, req.a_max, req.v_start, req.v_sat, req.v_target,
                                req.distance, req.x_start, req.t_start)
    IN  /\ ad' = r.ad
        /\ plan' = r.plan
        /\ err' = r.err
        /\ adState' = "READY"
        /\ UNCHANGED <<req, curve, curveState>>

\* ac.reset(a_max, v_start, v_end) on the free-standing curve
CurveReset ==
    /\ curve' = AccelCurveReset(curve, req.a_max, req.v_start, req.v_target)
    /\ curveState' = "READY"
    /\ UNCHANGED <<req, ad, plan, err, adState>>

Next == DesignerReset \/ CurveReset

Spec == Init /\ [][Next]_vars

(***************************************************************************)
(* Sampling and tolerances of the properties                               *)
(***************************************************************************)
Ready == adState = "READY"
CurveReady == curveState = "READY"

\* every AccelCurve that a reset has built
Curves ==
    (IF CurveReady THEN {curve} ELSE {}) \cup (IF Ready THEN {ad.ac, ad.dc} ELSE {})

Far == FromMs(50)

\* sample instants of a curve: far outside, around every boundary, inside
CurveTimes(c) ==
    {c.t0 - Far, c.t3 + Far}
      \cup {b + k : b \in {c.t0, c.t1, c.t2, c.t3}, k \in {-1, 0, 1}}
      \cup {c.t0 + (k * (c.t3 - c.t0)) \div NSamples : k \in 0..NSamples}

\* sample instants of a trajectory with finite boundary instants
DesignerTimes(d) ==
    {d.t0 - Far, d.t0 - 1, d.t0, d.t1, d.t3.n + 1, d.t3.n + Far}
      \cup {d.t0 + t : t \in CurveTimes(d.ac)}
      \cup {d.t2.n + t : t \in CurveTimes(d.dc)}
      \cup {d.t0 + (k * (d.t3.n - d.t0)) \div (2 * NSamples) : k \in 0..(2 * NSamples)}

\* rounding allowances of the grid: 1 um, 1 mm/s, 50 mm/s^2
PosEps == FromUm(1)
VelEps == FromMmS(1)
AccEps == FromMmS2(50)

\* the last instant of phase p of a curve
End(c, p) ==
    CASE p = 0 -> c.t0 [] p = 1 -> c.t1 [] p = 2 -> c.t2 [] p = 3 -> c.t3

\* the phases of a curve that last, in order, between the two rays
Present(c) ==
    SelectSeq(<<0, 1, 2, 3, 4>>, LAMBDA p : p \in {0, 4} \/ End(c, p) > End(c, p - 1))

\* the pairs <<p, q>> of phases that meet at the boundary instant End(c, p)
Joints(c) == {<<Present(c)[i], Present(c)[i + 1]>> : i \in 1..(Len(Present(c)) - 1)}

(***************************************************************************)
(* C1                                                                      *)
(***************************************************************************)
C1_Applies ==
    /\ Ready
    /\ req.distance > calcMinDistance(req.a_max, req.v_start, req.v_target)

\* C1: after a reset with a distance d above calcMinDistance(a_max, v_start,
\* v_target), x_end() - x_start is d within 0.1 mm, x(t_end()) is x_end() and
\* x(t_start) is x_start.
C1_RoundTrip ==
    C1_Applies =>
        /\ Abs(DesignerXEnd(ad) - req.x_start - req.distance) <= DistTol
        /\ DesignerX(ad, DesignerTEnd(ad)) = Fin(DesignerXEnd(ad))
        /\ DesignerX(ad, Fin(req.t_start)) = Fin(req.x_start)

(***************************************************************************)
(* C2                                                                      *)
(***************************************************************************)
C2_Braking ==
    /\ Ready
    /\ req.v_start = req.v_sat /\ req.v_sat > req.v_target /\ req.v_target = 0
    /\ req.distance >= calcMinDistance(req.a_max, req.v_start, req.v_target)

\* C2: a pure-braking reset (v_start = v_sat > v_target = 0, distance at least
\* calcMinDistance), the scenario of the harness among them, leaves boundary
\* instants t0 <= t1 <= t2 <= t3, x_end() = x_start + distance within 0.1 mm,
\* and a velocity with 0 <= v(t) <= v_start at every instant.
C2_PureBraking ==
    C2_Braking =>
        /\ IsFin(ad.t2) /\ IsFin(ad.t3)
        /\ ad.t0 <= ad.t1 /\ ad.t1 <= ad.t2.n /\ ad.t2.n <= ad.t3.n
        /\ Abs(DesignerXEnd(ad) - (req.x_start + req.distance)) <= DistTol
        /\ \A t \in DesignerTimes(ad) :
              LET v == DesignerV(ad, Fin(t))
              IN  IsFin(v) /\ 0 <= v.n /\ v.n <= req.v_start

\* the harness scenario has been reset and brakes through a plateau
C2_Witness == C2_Braking /\ req = HarnessRequest /\ ad.dc.tm > 0 /\ ad.t2.n > ad.t1

(***************************************************************************)
(* C3                                                                      *)
(***************************************************************************)
OutsideCurve(c) == {t \in CurveTimes(c) : t < c.t0 \/ t > c.t3}
BeforeDesigner(d) == {d.t0 - 1, d.t0 - Far}
AfterDesigner(d) == IF IsFin(d.t3) THEN {d.t3.n + 1, d.t3.n + Far} ELSE {}

\* j, a and v outside [t0, t3]: zero, zero, the boundary velocity
C3_RaysJAV ==
    /\ \A c \in Curves : \A t \in OutsideCurve(c) :
          /\ CurveJ(c, t) = 0
          /\ CurveA(c, t) = 0
          /\ CurveV(c, t) = IF t < c.t0 THEN c.v0 ELSE c.v3
    /\ Ready => \A t \in BeforeDesigner(ad) \cup AfterDesigner(ad) :
          /\ DesignerJ(ad, Fin(t)) = Fin(0)
          /\ DesignerA(ad, Fin(t)) = Fin(0)
          /\ DesignerV(ad, Fin(t))
                = Fin(IF t < ad.t0 THEN ad.ac.v0 ELSE DesignerVEnd(ad))

\* C3 as stated: outside [t0, t3] every query returns the clamped constant:
\* j = 0, a = 0, v the boundary velocity and x the boundary position (x0
\* before t0, x3 after t3), however far outside t lies (stated here for the
\* trajectories whose t2 is a number).
C3_Clamped ==
    /\ C3_RaysJAV
    /\ \A c \in Curves : \A t \in OutsideCurve(c) :
          CurveX(c, t) = IF t < c.t0 THEN c.x0 ELSE c.x3
    /\ Ready /\ ad.t2 # NaN => \A t \in BeforeDesigner(ad) \cup AfterDesigner(ad) :
          DesignerX(ad, Fin(t)) = Fin(IF t < ad.t0 THEN ad.x0 ELSE ad.x3)

\* C3 amended: outside [t0, t3], j = 0, a = 0, v is the boundary velocity, and
\* x continues on the straight line through the boundary position with the
\* boundary velocity as slope: x0 + v0 * (t - t0) before t0 and
\* x3 + v3 * (t - t3) after t3.  For the trajectory this is so whenever reset
\* left a number in t2; where it left NaN there, x(t) is NaN at every t.
C3_Extrapolated ==
    /\ C3_RaysJAV
    /\ \A c \in Curves : \A t \in OutsideCurve(c) :
          CurveX(c, t) = IF t < c.t0 THEN c.x0 + Mul(c.v0, t - c.t0)
                         ELSE c.x3 + Mul(c.v3, t - c.t3)
    /\ Ready /\ ad.t2 # NaN =>
          /\ \A t \in BeforeDesigner(ad) :
                DesignerX(ad, Fin(t)) = Fin(ad.x0 + Mul(ad.ac.v0, t - ad.t0))
          /\ \A t \in AfterDesigner(ad) :
                DesignerX(ad, Fin(t)) = Fin(ad.x3 + Mul(DesignerVEnd(ad), t - ad.t3.n))
    /\ Ready /\ ad.t2 = NaN =>
          \A t \in BeforeDesigner(ad) \cup {ad.t0, ad.t0 + Far} : DesignerX(ad, Fin(t)) = NaN

\* a curve and a trajectory that start with a positive velocity have been
\* reset, and the ray before t0 leaves the boundary position
C3_Witness ==
    /\ CurveReady /\ Ready /\ IsFin(ad.t3)
    /\ curve.v0 > 0 /\ curve.v3 > 0 /\ curve.t3 > 0
    /\ CurveX(curve, curve.t0 - Far) < curve.x0
    /\ DesignerX(ad, Fin(ad.t0 - Far)) # Fin(ad.x0)

(***************************************************************************)
(* C5                                                                      *)
(***************************************************************************)
\* C5: reset(a_max, v, v, v, 0, x_start, t_start) leaves numbers, with
\* t_end() = t_start and x_end() = x_start, for every v including v = 0.
C5_ZeroDistance ==
    Ready /\ req.v_start = req.v_sat /\ req.v_sat = req.v_target /\ req.distance = 0
        => /\ DesignerTEnd(ad) = Fin(req.t_start)
           /\ DesignerXEnd(ad) = req.x_start

(***************************************************************************)
(* C6                                                                      *)
(***************************************************************************)
\* C6: after every reset (a_max > 0, distance >= 0, velocities >= 0) the
\* boundary instants are weakly increasing within e = 0.001 s, that is the
\* cruise lasts no less than -e; "Error: Time Point" is written exactly when
\* the ordering fails.
C6_TimeOrder ==
    Ready =>
        /\ TimeOrdered(ad.t0, ad.t1, ad.t2, ad.t3)
        /\ ELe(Fin(ad.t1 - TimeTol), ad.t2)
        /\ (ErrTimePoint \in err) <=> ~TimeOrdered(ad.t0, ad.t1, ad.t2, ad.t3)

(***************************************************************************)
(* C10                                                                     *)
(***************************************************************************)
\* C10: after every reset the peak velocity v_max, which ends the
\* acceleration curve and starts the deceleration curve, is at least
\* max(v_start, v_end()), and at most v_sat whenever v_start <= v_sat and
\* v_target <= v_sat (up to the rounding allowance).
C10_PeakBounds ==
    Ready =>
        /\ ad.ac.v3 = plan.v_max /\ ad.dc.v0 = plan.v_max
        /\ Max2(req.v_start, DesignerVEnd(ad)) <= plan.v_max
        /\ (req.v_start <= req.v_sat /\ req.v_target <= req.v_sat)
              => plan.v_max <= req.v_sat + VelEps

(***************************************************************************)
(* C4                                                                      *)
(***************************************************************************)
\* the phases 1..3 of a curve that last long enough to hold three samples
LongPhases(c) == {p \in 1..3 : End(c, p) - End(c, p - 1) >= 3}

\* three instants inside phase p: the first, an even distance later the
\* last, and their midpoint
PhaseFirst(c, p) == End(c, p - 1) + 1
PhaseLast(c, p) == End(c, p) - ((End(c, p) - PhaseFirst(c, p)) % 2)
PhaseMid(c, p) == (PhaseFirst(c, p) + PhaseLast(c, p)) \div 2

\* a is the integral of j over phase p: linear with slope j
AIntegratesJ(c, p) ==
    LET s == PhaseFirst(c, p)
        t == PhaseLast(c, p)
    IN  Abs((CurveA(c, t) - CurveA(c, s)) - Mul(CurveJ(c, t), t - s)) <= AccEps

\* v is the integral of a over phase p (trapezoid rule, exact for linear a)
VIntegratesA(c, p) ==
    LET s == PhaseFirst(c, p)
        t == PhaseLast(c, p)
    IN  Abs((CurveV(c, t) - CurveV(c, s))
              - DivInt(Mul(CurveA(c, s) + CurveA(c, t), t - s), 2)) <= VelEps

\* x is the integral of v over phase p (Simpson's rule, exact for quadratic v)
XIntegratesV(c, p) ==
    LET s == PhaseFirst(c, p)
        t == PhaseLast(c, p)
        m == PhaseMid(c, p)
    IN  Abs((CurveX(c, t) - CurveX(c, s))
              - DivInt(Mul(CurveV(c, s) + 4 * CurveV(c, m) + CurveV(c, t), t - s), 6))
          <= PosEps

\* C4: for every curve built by reset, accelerating or decelerating, on each
\* phase a is the integral of j with j = +jm, 0, -jm (jm negative for a
\* deceleration), v is the integral of a and x is the integral of v.
C4_Consistent ==
    \A c \in Curves : \A p \in LongPhases(c) :
        /\ CurveJ(c, PhaseLast(c, p)) = (CASE p = 1 -> c.jm [] p = 2 -> 0 [] p = 3 -> -c.jm)
        /\ AIntegratesJ(c, p)
        /\ VIntegratesA(c, p)
        /\ XIntegratesV(c, p)

(***************************************************************************)
(* C7                                                                      *)
(***************************************************************************)
\* the request is feasible and its first plan overshoots the distance, so
\* that reset called calcVelocityMax; plan.vm is what it returned
C7_Applies == Ready /\ plan.over /\ ~plan.short

\* the two curves rebuilt from the peak velocity calcVelocityMax returned
RebuiltAcc == AccelCurveOf(req.a_max, req.v_start, plan.vm)
RebuiltDec == AccelCurveOf(req.a_max, plan.vm, plan.v_end)

\* C7: for every feasible (a_max, v_start, v_end, distance) whose naive peak
\* overshoots, the curves rebuilt from vm = calcVelocityMax(...) have x_end()
\* values that sum to the distance within 0.1 mm, with or without plateau.
C7_RoundTrip ==
    C7_Applies => Abs(RebuiltAcc.x3 + RebuiltDec.x3 - plan.distance) <= DistTol

(***************************************************************************)
(* C8                                                                      *)
(***************************************************************************)
\* v and x of a curve are continuous where phase p meets phase q
CurveContinuousAt(c, p, q) ==
    LET b == End(c, p)
    IN  /\ Abs(VPiece(c, p, b) - VPiece(c, q, b)) <= VelEps
        /\ Abs(XPiece(c, p, b) - XPiece(c, q, b)) <= PosEps

\* C8: v and x of every curve are continuous at t1, t2, t3 (3-phase and
\* triangle), and v and x of every trajectory (with finite instants) at its
\* t1 and t2: x just before t2 is x_end() minus the terminal position of the
\* deceleration curve, and v at t1 and at t2 is v_max.
C8_Continuity ==
    /\ \A c \in Curves : \A j \in Joints(c) : CurveContinuousAt(c, j[1], j[2])
    /\ Ready /\ IsFin(ad.t2) =>
          /\ LET left == EAdd(Fin(ad.x0), CurveXE(ad.ac, ESub(ad.t2, Fin(ad.t0))))
             IN  IsFin(left) /\ Abs(left.n - (ad.x3 - ad.dc.x3)) <= PosEps
          /\ DesignerV(ad, Fin(ad.t1)) = Fin(plan.v_max)
          /\ DesignerV(ad, ad.t2) = Fin(plan.v_max)

(***************************************************************************)
(* C9                                                                      *)
(***************************************************************************)
\* v of a curve never runs against the direction from v_start to v_end
Monotonic(c) ==
    \A s, t \in CurveTimes(c) :
        s < t => CASE c.v3 > c.v0 -> CurveV(c, s) <= CurveV(c, t)
                   [] c.v3 < c.v0 -> CurveV(c, s) >= CurveV(c, t)
                   [] OTHER -> CurveV(c, s) = CurveV(c, t)

\* C9: every curve built by reset(a_max, v_start, v_end) keeps |a(t)| <= a_max
\* and |j(t)| <= j_max at every t, with and without plateau, and v(t) runs
\* monotonically from v_start to v_end.
C9_Limits ==
    \A c \in Curves :
        /\ \A t \in CurveTimes(c) :
              /\ Abs(CurveA(c, t)) <= req.a_max
              /\ Abs(CurveJ(c, t)) <= JU
        /\ Monotonic(c)
        /\ CurveV(c, c.t0) = c.v0 /\ CurveV(c, c.t3) = c.v3

\* a decelerating triangle curve and an accelerating plateau curve have been
\* built, and both reach a non-zero acceleration
C9_Witness ==
    /\ CurveReady /\ Ready
    /\ curve.tm <= 0 /\ curve.v3 < curve.v0 /\ CurveA(curve, curve.t1) < 0
    /\ ad.ac.tm > 0 /\ ad.ac.v3 > ad.ac.v0 /\ CurveA(ad.ac, ad.ac.t2) = req.a_max

====
